---- MODULE Spec2Model ----
(***************************************************************************)
(* The drops relay server (package drops: handler.go, server.go).          *)
(*                                                                         *)
(* One dispatcher (Server.handle) runs per accepted connection.  It reads  *)
(* a line, splits it on single spaces, calls the handler of the first      *)
(* token and writes the handler's response (or ERR) to its own connection. *)
(* Handlers work on the station registry (Server.stations, guarded by the  *)
(* RWMutex Server.stationsM) and on one station's metric store (guarded by *)
(* Station.m) or pending runs (guarded by Station.runsM); RUN, DONE and    *)
(* ERR also write to another connection.                                   *)
(*                                                                         *)
(* A dispatcher's steps are split where another dispatcher can observe the *)
(* difference: at every lock that can be contended, at every Write call on *)
(* a connection, and between a handler's return and the write of its       *)
(* response.  Sections under stationsM.Lock (handleRegister, the           *)
(* unregistration in handle) contain no blocking call and are one step     *)
(* each, enabled when no dispatcher holds stationsM.RLock.                 *)
(***************************************************************************)
EXTENDS Integers, Sequences, FiniteSets, TLC

\* ------------------------------------------------------------------ bounds

\* Command lines read by all dispatchers together in one behaviour.
MaxLines == 4

\* The largest maxMetricPoints a server is constructed with.
MaxCap == 2

\* The connections the acceptor loop (Server.Serve) has handed to handle.
\* The peers of c1 and c2 are devices: they send the station commands
\* (REGISTER, DONE, ERR).  The peers of c2 and c3 are controllers: they send
\* the client commands (RUN, LIST).  Any peer may send an unknown command or
\* close its connection.
Conns == {"c1", "c2", "c3"}

Devices == {"c1", "c2"}

Controllers == {"c2", "c3"}

\* Tokens the peers put in their lines.
Names == {"a", "b"}
Types == {"t1", "t2"}

\* ------------------------------------------------------------ map helpers

\* A Go map is a function whose domain is the set of keys present.
EmptyMap == [k \in {} |-> k]

MapPut(m, k, v) == [x \in (DOMAIN m) \cup {k} |-> IF x = k THEN v ELSE m[x]]

MapDelete(m, k) == [x \in (DOMAIN m) \ {k} |-> m[x]]

\* ------------------------------------------------------------------ state

VARIABLES
  stations,   \* Server.stations: name -> Station
  stationsM,  \* Server.stationsM: the dispatchers holding it in read mode
  name,       \* clientConn.name of each connection ("" until REGISTER)
  pc,         \* where each dispatcher is in handle and the handler it called
  frame,      \* the running handler's arguments, station and return values
  out,        \* the line last written, or being written, to each connection:
              \* the Write calls that make it up, in order
  nlines,     \* lines read so far by all dispatchers
  maxMetricPoints  \* Server.maxMetricPoints, given to NewServer

vars == <<stations, stationsM, name, pc, frame, out, nlines, maxMetricPoints>>

\* A sync.Mutex nobody holds.
Unlocked == "unlocked"

\* A Station that starts with a run pending and a metric recorded.
NewStationUsed(conn, tipe) ==
  [metrics |-> [k \in {"level"} |-> << [ts |-> 0, value |-> 1] >>], m |-> "unlocked",
   c |-> conn, tipe |-> tipe,
   runs |-> [k \in {"n1"} |-> [client |-> conn, name |-> "a"]], runsM |-> "unlocked"]

\* The Station handleRegister builds.
NewStation(conn, tipe) ==
  [metrics |-> EmptyMap, m |-> Unlocked,
   c |-> conn, tipe |-> tipe,
   runs |-> EmptyMap, runsM |-> Unlocked]

\* A run that names the station's own connection as its requester.
NewRunOfStation(conn, stationName) == [client |-> stations[stationName].c, name |-> stationName]

\* The run handleRun stores under the nonce.
NewRun(conn, stationName) == [client |-> conn, name |-> stationName]

\* A dispatcher between two commands: no line in hand, no handler running.
\* cmdParts is the split line, station the key of the Station the handler
\* looked up, resp and err the handler's return values.
NoFrame == [cmdParts |-> << >>, station |-> "", resp |-> << >>, err |-> FALSE]

\* cmdParts[1:]
Args(cmdParts) == SubSeq(cmdParts, 2, Len(cmdParts))

\* ------------------------------------------------------------- connection

\* The peer of a connection whose scanner has stopped is gone.
Open(c) == pc[c] \notin {"closing", "closed"}

\* A line that has got its newline.
Ended(line) == line # << >> /\ line[Len(line)].nl

\* One Write call on connection c by the dispatcher of connection w: the
\* text (its space-separated tokens) and whether it ends the line.  What is
\* written after the peer has gone reaches nobody.

Write(o, c, w, text, nl) ==
  IF Open(c)
    THEN [o EXCEPT ![c] = Append(IF Ended(@) THEN << >> ELSE @,
                                 [by |-> w, text |-> text, nl |-> nl])]
    ELSE o

\* ---------------------------------------------------------------- returns

\* return "", errors.Errorf(...): deferred unlocks run, handle gets err.
ReturnErr(c, cmdParts) ==
  /\ pc' = [pc EXCEPT ![c] = "resp"]
  /\ frame' = [frame EXCEPT ![c] = [NoFrame EXCEPT !.cmdParts = cmdParts, !.err = TRUE]]
  /\ stationsM' = stationsM \ {c}

\* return resp, nil
ReturnOk(c, cmdParts, resp) ==
  /\ pc' = [pc EXCEPT ![c] = "resp"]
  /\ frame' = [frame EXCEPT ![c] = [NoFrame EXCEPT !.cmdParts = cmdParts, !.resp = resp]]
  /\ stationsM' = stationsM \ {c}

\* scanner.Scan() delivers the next line.
Scanned(c) ==
  /\ pc[c] = "scan"
  /\ nlines < MaxLines
  /\ nlines' = nlines + 1
  /\ UNCHANGED maxMetricPoints

\* A connection that counts as a station whatever its name is.
RegisteredAlways(c) == TRUE

\* conn.name != "": the client has run REGISTER first.
Registered(c) == name[c] # ""

\* ---------------------------------------------------------------- REGISTER

\* stationsM.Lock() succeeds when no reader holds the lock.
CanLock == stationsM = {}

\* A lookup that never finds the name: REGISTER would overwrite a station.
PresentNever(stationName) == FALSE

\* _, present := s.stations[name]
Present(stationName) == stationName \in DOMAIN stations

\* A REGISTER that tags the connection with the name it asked for also when
\* the name is taken.
handleRegisterTagsRefused(c, args) ==
  LET cmdParts == <<"REGISTER">> \o args IN
  /\ Scanned(c)
  /\ IF Len(args) # 2
       THEN ReturnErr(c, cmdParts) /\ UNCHANGED <<stations, name>>
       ELSE /\ CanLock
            /\ name' = [name EXCEPT ![c] = args[1]]
            /\ IF Present(args[1])
                 THEN ReturnErr(c, cmdParts) /\ UNCHANGED stations
                 ELSE /\ stations' = MapPut(stations, args[1], NewStation(c, args[2]))
                      /\ ReturnOk(c, cmdParts, <<"ACK">>)
  /\ UNCHANGED out

\* Arity check, stationsM.Lock(), presence check; the new Station is stored
\* and the connection tagged with its name.
handleRegister(c, args) ==
  LET cmdParts == <<"REGISTER">> \o args IN
  /\ Scanned(c)
  /\ IF Len(args) # 2
       THEN ReturnErr(c, cmdParts) /\ UNCHANGED <<stations, name>>
       ELSE /\ CanLock
            /\ IF Present(args[1])
                 THEN ReturnErr(c, cmdParts) /\ UNCHANGED <<stations, name>>
                 ELSE /\ stations' = MapPut(stations, args[1], NewStation(c, args[2]))
                      /\ name' = [name EXCEPT ![c] = args[1]]
                      /\ ReturnOk(c, cmdParts, <<"ACK">>)
  /\ UNCHANGED out

\* -------------------------------------------------------------------- LIST

\* An iteration that may visit a key twice and miss another.
OrdersRepeating(S) == [1..Cardinality(S) -> S]

\* The orders in which range may visit the keys of a map.
Orders(S) ==
  {s \in [1..Cardinality(S) -> S] : \A i, j \in 1..Cardinality(S) : s[i] = s[j] => i = j}

\* "LIST" followed by " name:type" for each station, in iteration order.
ListReply(order) ==
  <<"LIST">> \o [i \in 1..Len(order) |-> <<order[i], stations[order[i]].tipe>>]

\* A LIST that only a named connection may send.
handleListOfStation(c, args) ==
  LET cmdParts == <<"LIST">> \o args IN
  /\ Scanned(c)
  /\ IF Len(args) # 0 \/ name[c] = ""
       THEN ReturnErr(c, cmdParts)
       ELSE \E order \in Orders(DOMAIN stations) : ReturnOk(c, cmdParts, ListReply(order))
  /\ UNCHANGED <<stations, name, out>>

handleList(c, args) ==
  LET cmdParts == <<"LIST">> \o args IN
  /\ Scanned(c)
  /\ IF Len(args) # 0
       THEN ReturnErr(c, cmdParts)
       ELSE \E order \in Orders(DOMAIN stations) : ReturnOk(c, cmdParts, ListReply(order))
  /\ UNCHANGED <<stations, name, out>>

\* --------------------------------------------------------------------- RUN

\* The handler running in dispatcher c and the Station it holds a pointer to.
MyArgs(c) == Args(frame[c].cmdParts)

MyStation(c) == stations[frame[c].station]

\* A handler goes on: its dispatcher moves to the next place in it.
Goto(c, label) == pc' = [pc EXCEPT ![c] = label]

\* A mutex that never makes anybody wait.
RunsFreeAlways(station) == TRUE

\* station.runsM.Lock() succeeds when nobody holds the mutex.
RunsFree(station) == station.runsM = Unlocked

\* A nonce check that looks at the pending runs of every station.
NonceKnownAnywhere(station, nonce) ==
  \E S \in DOMAIN stations : nonce \in DOMAIN stations[S].runs

\* _, ok := station.runs[nonce]
NonceKnown(station, nonce) == nonce \in DOMAIN station.runs

\* The first Fprintf of handleRun: "RUN %s %s".
RunText(fn, nonce) == <<"RUN", fn, nonce>>

\* Arity check, stationsM.RLock(), lookup of the target station.
handleRun(c, args) ==
  LET cmdParts == <<"RUN">> \o args IN
  /\ Scanned(c)
  /\ IF Len(args) < 3 \/ Len(args) > 4
       THEN ReturnErr(c, cmdParts)
       ELSE IF ~Present(args[1])
         THEN ReturnErr(c, cmdParts)
         ELSE /\ stationsM' = stationsM \cup {c}
              /\ frame' = [frame EXCEPT ![c] = [NoFrame EXCEPT !.cmdParts = cmdParts,
                                                              !.station = args[1]]]
              /\ Goto(c, "runLock")
  /\ UNCHANGED <<stations, name, out>>

\* station.runsM.Lock() and the check that the nonce is free.
RunLock(c) ==
  /\ pc[c] = "runLock"
  /\ RunsFree(MyStation(c))
  /\ IF NonceKnown(MyStation(c), MyArgs(c)[3])
       THEN ReturnErr(c, frame[c].cmdParts) /\ UNCHANGED stations
       ELSE /\ stations' = [stations EXCEPT ![frame[c].station].runsM = c]
            /\ Goto(c, "runWrite")
            /\ UNCHANGED <<frame, stationsM>>
  /\ UNCHANGED <<name, out, nlines, maxMetricPoints>>

\* fmt.Fprintf(station.c, "RUN %s %s", fn, nonce)
RunWrite(c) ==
  /\ pc[c] = "runWrite"
  /\ out' = Write(out, MyStation(c).c, c, RunText(MyArgs(c)[2], MyArgs(c)[3]), FALSE)
  /\ Goto(c, IF Len(MyArgs(c)) = 4 THEN "runParam" ELSE "runNewline")
  /\ UNCHANGED <<stations, stationsM, name, frame, nlines, maxMetricPoints>>

\* fmt.Fprintf(station.c, " %s", args[3])
RunParam(c) ==
  /\ pc[c] = "runParam"
  /\ out' = Write(out, MyStation(c).c, c, <<MyArgs(c)[4]>>, FALSE)
  /\ Goto(c, "runNewline")
  /\ UNCHANGED <<stations, stationsM, name, frame, nlines, maxMetricPoints>>

\* fmt.Fprintf(station.c, "\n")
RunNewline(c) ==
  /\ pc[c] = "runNewline"
  /\ out' = Write(out, MyStation(c).c, c, << >>, TRUE)
  /\ Goto(c, "runSave")
  /\ UNCHANGED <<stations, stationsM, name, frame, nlines, maxMetricPoints>>

\* A RUN that is recorded on every station of the registry.
RunSaveEverywhere(c) ==
  /\ pc[c] = "runSave"
  /\ stations' = [S \in DOMAIN stations |->
       [stations[S] EXCEPT
          !.runs = MapPut(@, MyArgs(c)[3], NewRun(c, MyArgs(c)[1])),
          !.runsM = IF S = frame[c].station THEN Unlocked ELSE @]]
  /\ ReturnOk(c, frame[c].cmdParts, <<"ACK">>)
  /\ UNCHANGED <<name, out, nlines, maxMetricPoints>>

\* station.runs[nonce] = &run{...}; return "ACK", nil (both locks released).
RunSave(c) ==
  /\ pc[c] = "runSave"
  /\ stations' = [stations EXCEPT
       ![frame[c].station].runs = MapPut(@, MyArgs(c)[3], NewRun(c, MyArgs(c)[1])),
       ![frame[c].station].runsM = Unlocked]
  /\ ReturnOk(c, frame[c].cmdParts, <<"ACK">>)
  /\ UNCHANGED <<name, out, nlines, maxMetricPoints>>

\* -------------------------------------------------------------------- DONE

\* The first Fprintf of handleDone: "DONE %s %s %s".
DoneText(r, fn, nonce) == <<"DONE", r.name, fn, nonce>>

\* Arity check, conn.name check, stationsM.RLock(), lookup of the caller.
handleDone(c, args) ==
  LET cmdParts == <<"DONE">> \o args IN
  /\ Scanned(c)
  /\ IF Len(args) < 2 \/ Len(args) > 3
       THEN ReturnErr(c, cmdParts)
       ELSE IF ~Registered(c) \/ ~Present(name[c])
         THEN ReturnErr(c, cmdParts)
         ELSE /\ stationsM' = stationsM \cup {c}
              /\ frame' = [frame EXCEPT ![c] = [NoFrame EXCEPT !.cmdParts = cmdParts,
                                                              !.station = name[c]]]
              /\ Goto(c, "doneLock")
  /\ UNCHANGED <<stations, name, out>>

\* station.runsM.Lock() and the lookup of the nonce.
DoneLock(c) ==
  /\ pc[c] = "doneLock"
  /\ RunsFree(MyStation(c))
  /\ IF ~NonceKnown(MyStation(c), MyArgs(c)[2])
       THEN ReturnErr(c, frame[c].cmdParts) /\ UNCHANGED stations
       ELSE /\ stations' = [stations EXCEPT ![frame[c].station].runsM = c]
            /\ Goto(c, "doneWrite")
            /\ UNCHANGED <<frame, stationsM>>
  /\ UNCHANGED <<name, out, nlines, maxMetricPoints>>

\* c, ok := station.runs[nonce]
MyRun(c) == MyStation(c).runs[MyArgs(c)[2]]

\* fmt.Fprintf(c.client, "DONE %s %s %s", c.name, fn, nonce)
DoneWrite(c) ==
  /\ pc[c] = "doneWrite"
  /\ out' = Write(out, MyRun(c).client, c, DoneText(MyRun(c), MyArgs(c)[1], MyArgs(c)[2]), FALSE)
  /\ Goto(c, IF Len(MyArgs(c)) = 3 THEN "doneResult" ELSE "doneNewline")
  /\ UNCHANGED <<stations, stationsM, name, frame, nlines, maxMetricPoints>>

\* fmt.Fprintf(c.client, " %s", args[2])
DoneResult(c) ==
  /\ pc[c] = "doneResult"
  /\ out' = Write(out, MyRun(c).client, c, <<MyArgs(c)[3]>>, FALSE)
  /\ Goto(c, "doneNewline")
  /\ UNCHANGED <<stations, stationsM, name, frame, nlines, maxMetricPoints>>

\* fmt.Fprintf(c.client, "\n")
DoneNewline(c) ==
  /\ pc[c] = "doneNewline"
  /\ out' = Write(out, MyRun(c).client, c, << >>, TRUE)
  /\ Goto(c, "doneDelete")
  /\ UNCHANGED <<stations, stationsM, name, frame, nlines, maxMetricPoints>>

\* A return that leaves the pending run in the table.
DeleteRunForgotten(c) == [stations EXCEPT ![frame[c].station].runsM = Unlocked]

\* delete(station.runs, nonce); return "ACK", nil (both locks released).
\* handleError ends the same way.
DeleteRun(c) ==
  [stations EXCEPT ![frame[c].station].runs = MapDelete(@, MyArgs(c)[2]),
                   ![frame[c].station].runsM = Unlocked]

DoneDelete(c) ==
  /\ pc[c] = "doneDelete"
  /\ stations' = DeleteRun(c)
  /\ ReturnOk(c, frame[c].cmdParts, <<"ACK">>)
  /\ UNCHANGED <<name, out, nlines, maxMetricPoints>>

\* --------------------------------------------------------------------- ERR

\* The only Fprintf of handleError: "ERR %s %s %s\n".
ErrText(r, fn, nonce) == <<"ERR", r.name, fn, nonce>>

handleError(c, args) ==
  LET cmdParts == <<"ERR">> \o args IN
  /\ Scanned(c)
  /\ IF Len(args) # 2
       THEN ReturnErr(c, cmdParts)
       ELSE IF ~Registered(c) \/ ~Present(name[c])
         THEN ReturnErr(c, cmdParts)
         ELSE /\ stationsM' = stationsM \cup {c}
              /\ frame' = [frame EXCEPT ![c] = [NoFrame EXCEPT !.cmdParts = cmdParts,
                                                              !.station = name[c]]]
              /\ Goto(c, "errLock")
  /\ UNCHANGED <<stations, name, out>>

ErrLock(c) ==
  /\ pc[c] = "errLock"
  /\ RunsFree(MyStation(c))
  /\ IF ~NonceKnown(MyStation(c), MyArgs(c)[2])
       THEN ReturnErr(c, frame[c].cmdParts) /\ UNCHANGED stations
       ELSE /\ stations' = [stations EXCEPT ![frame[c].station].runsM = c]
            /\ Goto(c, "errWrite")
            /\ UNCHANGED <<frame, stationsM>>
  /\ UNCHANGED <<name, out, nlines, maxMetricPoints>>

\* fmt.Fprintf(c.client, "ERR %s %s %s\n", c.name, fn, nonce)
ErrWrite(c) ==
  /\ pc[c] = "errWrite"
  /\ out' = Write(out, MyRun(c).client, c, ErrText(MyRun(c), MyArgs(c)[1], MyArgs(c)[2]), TRUE)
  /\ Goto(c, "errDelete")
  /\ UNCHANGED <<stations, stationsM, name, frame, nlines, maxMetricPoints>>

ErrDelete(c) ==
  /\ pc[c] = "errDelete"
  /\ stations' = DeleteRun(c)
  /\ ReturnOk(c, frame[c].cmdParts, <<"ACK">>)
  /\ UNCHANGED <<name, out, nlines, maxMetricPoints>>

\* ------------------------------------------------------------------ METRIC

\* strconv.ParseFloat(stringValue, 64) on the tokens the devices send: the
\* decimal numerals give their value, any other token an error.
ParseFloat(stringValue) ==
  CASE stringValue = "1" -> [value |-> 1, err |-> FALSE]
    [] stringValue = "2" -> [value |-> 2, err |-> FALSE]
    [] stringValue = "3" -> [value |-> 3, err |-> FALSE]
    [] OTHER -> [value |-> 0, err |-> TRUE]

\* metric{ts: time.Now(), value: floatValue}.  The clock reads the number of
\* lines the server has read so far: it never goes back, and two points can
\* carry the same time.
NewMetric(floatValue) == [ts |-> nlines, value |-> floatValue]

\* A mutex that never makes anybody wait.
MFreeAlways(station) == TRUE

\* station.m.Lock() succeeds when nobody holds the mutex.
MFree(station) == station.m = Unlocked

\* station.metrics[name], the nil slice when the key is absent.
Points(station, metricName) ==
  IF metricName \in DOMAIN station.metrics THEN station.metrics[metricName] ELSE << >>

\* A trim that drops the newest point.
TrimNewest(points) ==
  IF Len(points) > maxMetricPoints THEN SubSeq(points, 1, Len(points) - 1) ELSE points

\* if len(station.metrics[name]) > s.maxMetricPoints { drop the first }
Trim(points) ==
  IF Len(points) > maxMetricPoints THEN SubSeq(points, 2, Len(points)) ELSE points

\* Arity check, ParseFloat, conn.name check, stationsM.RLock(), lookup of the
\* caller's station.
handleMetric(c, args) ==
  LET cmdParts == <<"METRIC">> \o args IN
  /\ Scanned(c)
  /\ IF Len(args) # 2
       THEN ReturnErr(c, cmdParts)
       ELSE IF ParseFloat(args[2]).err
         THEN ReturnErr(c, cmdParts)
         ELSE IF ~Registered(c) \/ ~Present(name[c])
           THEN ReturnErr(c, cmdParts)
           ELSE /\ stationsM' = stationsM \cup {c}
                /\ frame' = [frame EXCEPT ![c] = [NoFrame EXCEPT !.cmdParts = cmdParts,
                                                                !.station = name[c]]]
                /\ Goto(c, "metricLock")
  /\ UNCHANGED <<stations, name, out>>

\* station.m.Lock(); the point is appended to the metric's sequence.
MetricLock(c) ==
  /\ pc[c] = "metricLock"
  /\ MFree(MyStation(c))
  /\ stations' = [stations EXCEPT
       ![frame[c].station].m = c,
       ![frame[c].station].metrics =
          MapPut(@, MyArgs(c)[1],
                 Append(Points(MyStation(c), MyArgs(c)[1]),
                        NewMetric(ParseFloat(MyArgs(c)[2]).value)))]
  /\ Goto(c, "metricTrim")
  /\ UNCHANGED <<stationsM, name, frame, out, nlines, maxMetricPoints>>

\* A METRIC that returns with the station's metric lock still held.
MetricTrimKeepsLock(c) ==
  /\ pc[c] = "metricTrim"
  /\ stations' = [stations EXCEPT ![frame[c].station].metrics[MyArgs(c)[1]] = Trim(@)]
  /\ ReturnOk(c, frame[c].cmdParts, <<"ACK">>)
  /\ UNCHANGED <<name, out, nlines, maxMetricPoints>>

\* The sequence is cut to maxMetricPoints; return "ACK", nil (both locks
\* released).
MetricTrim(c) ==
  /\ pc[c] = "metricTrim"
  /\ stations' = [stations EXCEPT
       ![frame[c].station].metrics[MyArgs(c)[1]] = Trim(@),
       ![frame[c].station].m = Unlocked]
  /\ ReturnOk(c, frame[c].cmdParts, <<"ACK">>)
  /\ UNCHANGED <<name, out, nlines, maxMetricPoints>>

\* ----------------------------------------------------------------- METRICS

\* fmt.Sprintf("%f", m.value) for the values ParseFloat gives.
FormatFloat(value) ==
  CASE value = 1 -> "1.000000"
    [] value = 2 -> "2.000000"
    [] value = 3 -> "3.000000"
    [] OTHER -> "0.000000"

\* A reply that gives every metric name twice.
NamesReplyTwice(stationName, order) == <<"METRICS", stationName>> \o order \o order

\* "METRICS name" followed by " metric" for each metric of the station, in
\* iteration order.
NamesReply(stationName, order) == <<"METRICS", stationName>> \o order

\* "METRICS name metric" followed by " ts:value" for each point, oldest first.
SeriesReply(stationName, metricName, ms) ==
  <<"METRICS", stationName, metricName>>
    \o [i \in 1..Len(ms) |-> <<ms[i].ts, FormatFloat(ms[i].value)>>]

\* Arity check, stationsM.RLock(), lookup of the named station.
handleMetrics(c, args) ==
  LET cmdParts == <<"METRICS">> \o args IN
  /\ Scanned(c)
  /\ IF Len(args) < 1 \/ Len(args) > 2
       THEN ReturnErr(c, cmdParts)
       ELSE IF ~Present(args[1])
         THEN ReturnErr(c, cmdParts)
         ELSE /\ stationsM' = stationsM \cup {c}
              /\ frame' = [frame EXCEPT ![c] = [NoFrame EXCEPT !.cmdParts = cmdParts,
                                                              !.station = args[1]]]
              /\ Goto(c, "metricsLock")
  /\ UNCHANGED <<stations, name, out>>

\* station.m.Lock(); the reply is built and both locks are released.
MetricsLock(c) ==
  /\ pc[c] = "metricsLock"
  /\ MFree(MyStation(c))
  /\ IF Len(MyArgs(c)) = 1
       THEN \E order \in Orders(DOMAIN MyStation(c).metrics) :
              ReturnOk(c, frame[c].cmdParts, NamesReply(MyArgs(c)[1], order))
       ELSE IF MyArgs(c)[2] \notin DOMAIN MyStation(c).metrics
         THEN ReturnErr(c, frame[c].cmdParts)
         ELSE ReturnOk(c, frame[c].cmdParts,
                       SeriesReply(MyArgs(c)[1], MyArgs(c)[2],
                                   MyStation(c).metrics[MyArgs(c)[2]]))
  /\ UNCHANGED <<stations, name, out, nlines, maxMetricPoints>>

\* ---------------------------------------------------------------- response

\* A dispatcher that answers only the commands that succeed.
RespondOnSuccess(c) ==
  /\ pc[c] = "resp"
  /\ out' = IF frame[c].err THEN out ELSE Write(out, c, c, frame[c].resp, TRUE)
  /\ pc' = [pc EXCEPT ![c] = "scan"]
  /\ frame' = [frame EXCEPT ![c] = NoFrame]
  /\ UNCHANGED <<stations, stationsM, name, nlines, maxMetricPoints>>

\* A dispatcher that tells the peer which command failed.
RespondVerbose(c) ==
  /\ pc[c] = "resp"
  /\ out' = Write(out, c, c, IF frame[c].err THEN <<"ERR", frame[c].cmdParts[1]>>
                                             ELSE frame[c].resp, TRUE)
  /\ pc' = [pc EXCEPT ![c] = "scan"]
  /\ frame' = [frame EXCEPT ![c] = NoFrame]
  /\ UNCHANGED <<stations, stationsM, name, nlines, maxMetricPoints>>

\* handle: err != nil writes "ERR\n", otherwise fmt.Fprintln(conn, resp).
Respond(c) ==
  /\ pc[c] = "resp"
  /\ out' = Write(out, c, c, IF frame[c].err THEN <<"ERR">> ELSE frame[c].resp, TRUE)
  /\ pc' = [pc EXCEPT ![c] = "scan"]
  /\ frame' = [frame EXCEPT ![c] = NoFrame]
  /\ UNCHANGED <<stations, stationsM, name, nlines, maxMetricPoints>>

\* A default branch that answers as a failed handler does.
UnrecognizedTerse(c, cmdParts) ==
  /\ Scanned(c)
  /\ out' = Write(out, c, c, <<"ERR">>, TRUE)
  /\ UNCHANGED <<stations, stationsM, name, pc, frame>>

\* The default branch of the switch on the first token.
Unrecognized(c, cmdParts) ==
  /\ Scanned(c)
  /\ out' = Write(out, c, c, <<"ERR", "UNRECOGNIZED", "CMD">>, TRUE)
  /\ UNCHANGED <<stations, stationsM, name, pc, frame>>

\* ------------------------------------------------------------------- close

\* scanner.Scan() returns false: the stream ended or failed.
ScanEnd(c) ==
  /\ pc[c] = "scan"
  /\ pc' = [pc EXCEPT ![c] = IF name[c] # "" THEN "closing" ELSE "closed"]
  /\ UNCHANGED <<stations, stationsM, name, frame, out, nlines, maxMetricPoints>>

\* A dispatcher that empties the registry when it ends.
UnregisterAll(c) ==
  /\ pc[c] = "closing"
  /\ CanLock
  /\ stations' = EmptyMap
  /\ pc' = [pc EXCEPT ![c] = "closed"]
  /\ UNCHANGED <<stationsM, name, frame, out, nlines, maxMetricPoints>>

\* A dispatcher that ends without taking its station out of the registry.
UnregisterForgets(c) ==
  /\ pc[c] = "closing"
  /\ CanLock
  /\ pc' = [pc EXCEPT ![c] = "closed"]
  /\ UNCHANGED <<stations, stationsM, name, frame, out, nlines, maxMetricPoints>>

\* handle, after the loop: a tagged connection's station leaves the registry.
Unregister(c) ==
  /\ pc[c] = "closing"
  /\ CanLock
  /\ stations' = IF name[c] \in DOMAIN stations THEN MapDelete(stations, name[c]) ELSE stations
  /\ pc' = [pc EXCEPT ![c] = "closed"]
  /\ UNCHANGED <<stationsM, name, frame, out, nlines, maxMetricPoints>>

\* -------------------------------------------------------------------- spec

\* NewServer(listener, maxMetricPoints), and no connection has sent a line.
NewServer(points) ==
  /\ stations = EmptyMap
  /\ stationsM = {}
  /\ name = [c \in Conns |-> ""]
  /\ pc = [c \in Conns |-> "scan"]
  /\ frame = [c \in Conns |-> NoFrame]
  /\ out = [c \in Conns |-> << >>]
  /\ nlines = 0
  /\ maxMetricPoints = points

\* The server the relay and the registry are exercised on keeps MaxCap points.
Init == NewServer(MaxCap)

\* What a dispatcher does between reading a line and reading the next.
Step(c) ==
  \/ RunLock(c)
  \/ RunWrite(c)
  \/ RunParam(c)
  \/ RunNewline(c)
  \/ RunSave(c)
  \/ DoneLock(c)
  \/ DoneWrite(c)
  \/ DoneResult(c)
  \/ DoneNewline(c)
  \/ DoneDelete(c)
  \/ ErrLock(c)
  \/ ErrWrite(c)
  \/ ErrDelete(c)
  \/ Respond(c)

\* The end of a connection.
Close(c) == ScanEnd(c) \/ Unregister(c)

\* The relay: stations register, controllers run functions on them, stations
\* complete the runs, connections close.
RpcRegisterArgs == {<<"a", "t1">>, <<"b", "t1">>}

RpcRunArgs == {<<"a", "f", "n1">>, <<"b", "f", "n1", "p">>}

RpcDoneArgs == {<<"f", "n1", "p">>, <<"g", "n1">>}

RpcErrArgs == {<<"f", "n1">>}

Next ==
  \/ \E c \in Devices, args \in RpcRegisterArgs : handleRegister(c, args)
  \/ \E c \in Controllers, args \in RpcRunArgs : handleRun(c, args)
  \/ \E c \in Devices, args \in RpcDoneArgs : handleDone(c, args)
  \/ \E c \in Devices, args \in RpcErrArgs : handleError(c, args)
  \/ \E c \in Conns : Step(c)
  \/ \E c \in Conns : Close(c)

Spec == Init /\ [][Next]_vars

\* The registry: stations register under every name and type, with a wrong
\* argument count too; controllers list them; connections close.
RegistryRegisterArgs == {<<n, t>> : n \in Names, t \in Types} \cup {<<"a">>}

RegistryListArgs == {<< >>, <<"SOMETHING">>}

\* Lines whose first token is no command: DOODLE, and the blank line.
OtherLines == {<<"DOODLE">>, <<"">>}

NextRegistry ==
  \/ \E c \in Devices, args \in RegistryRegisterArgs : handleRegister(c, args)
  \/ \E c \in Controllers, args \in RegistryListArgs : handleList(c, args)
  \/ \E c \in Conns, cmdParts \in OtherLines : Unrecognized(c, cmdParts)
  \/ \E c \in Conns : Respond(c)
  \/ \E c \in Conns : Close(c)

SpecRegistry == Init /\ [][NextRegistry]_vars

\* The metric store: devices register and report values, unparsable ones
\* and with a wrong argument count too; controllers read the names and the
\* series; connections close.  The server keeps 0..MaxCap points.
InitMetrics == \E points \in 0..MaxCap : NewServer(points)

MetricsRegisterArgs == {<<"a", "t1">>, <<"b", "t1">>}

MetricArgs == {<<"level", "1">>, <<"level", "2">>, <<"level", "3">>, <<"temp", "1">>,
               <<"level", "something">>, <<"level">>}

MetricsArgs == {<<"a">>, <<"a", "level">>, <<"b", "level">>, << >>}

NextMetrics ==
  \/ \E c \in Devices, args \in MetricsRegisterArgs : handleRegister(c, args)
  \/ \E c \in Devices, args \in MetricArgs : handleMetric(c, args)
  \/ \E c \in Controllers, args \in MetricsArgs : handleMetrics(c, args)
  \/ \E c \in Conns : MetricLock(c)
  \/ \E c \in Conns : MetricTrim(c)
  \/ \E c \in Conns : MetricsLock(c)
  \/ \E c \in Conns : Respond(c)
  \/ \E c \in Conns : Close(c)

SpecMetrics == InitMetrics /\ [][NextMetrics]_vars

\* The whole server, each command with arguments it accepts and arguments
\* it refuses, and the lines that are no command.  "REGISTER  t1" has two
\* spaces: its name is the empty token.
ServerRegisterArgs == {<<"a", "t1">>, <<"", "t1">>, <<"a">>}

ServerListArgs == {<< >>, <<"SOMETHING">>}

ServerMetricArgs == {<<"level", "1">>, <<"level", "something">>, <<"level">>}

ServerMetricsArgs == {<<"a", "level">>, <<"b">>}

ServerRunArgs == {<<"a", "f", "n1">>, <<"a">>}

ServerDoneArgs == {<<"f", "n1">>, <<"f">>}

ServerErrArgs == {<<"f", "n1">>, <<"f">>}

NextServer ==
  \/ \E c \in Devices, args \in ServerRegisterArgs : handleRegister(c, args)
  \/ \E c \in Controllers, args \in ServerListArgs : handleList(c, args)
  \/ \E c \in Devices, args \in ServerMetricArgs : handleMetric(c, args)
  \/ \E c \in Controllers, args \in ServerMetricsArgs : handleMetrics(c, args)
  \/ \E c \in Controllers, args \in ServerRunArgs : handleRun(c, args)
  \/ \E c \in Devices, args \in ServerDoneArgs : handleDone(c, args)
  \/ \E c \in Devices, args \in ServerErrArgs : handleError(c, args)
  \/ \E c \in Conns, cmdParts \in OtherLines : Unrecognized(c, cmdParts)
  \/ \E c \in Conns : MetricLock(c)
  \/ \E c \in Conns : MetricTrim(c)
  \/ \E c \in Conns : MetricsLock(c)
  \/ \E c \in Conns : RunLock(c)
  \/ \E c \in Conns : RunWrite(c)
  \/ \E c \in Conns : RunNewline(c)
  \/ \E c \in Conns : RunSave(c)
  \/ \E c \in Conns : DoneLock(c)
  \/ \E c \in Conns : DoneWrite(c)
  \/ \E c \in Conns : DoneNewline(c)
  \/ \E c \in Conns : DoneDelete(c)
  \/ \E c \in Conns : ErrLock(c)
  \/ \E c \in Conns : ErrWrite(c)
  \/ \E c \in Conns : ErrDelete(c)
  \/ \E c \in Conns : Respond(c)
  \/ \E c \in Conns : Close(c)

SpecServer == Init /\ [][NextServer]_vars

\* What the goroutine of connection c does without its peer: the steps of the
\* handler it is in, and the unregistration after its loop.
Proceed(c) ==
  \/ MetricLock(c)
  \/ MetricTrim(c)
  \/ MetricsLock(c)
  \/ RunLock(c)
  \/ RunWrite(c)
  \/ RunNewline(c)
  \/ RunSave(c)
  \/ DoneLock(c)
  \/ DoneWrite(c)
  \/ DoneNewline(c)
  \/ DoneDelete(c)
  \/ ErrLock(c)
  \/ ErrWrite(c)
  \/ ErrDelete(c)
  \/ Unregister(c)

\* The locks: one station, and each command that takes a lock, with
\* arguments it accepts.
LocksRegisterArgs == {<<"a", "t1">>}

LocksListArgs == {<< >>}

LocksMetricArgs == {<<"level", "1">>}

LocksMetricsArgs == {<<"a", "level">>}

LocksRunArgs == {<<"a", "f", "n1">>}

LocksDoneArgs == {<<"f", "n1">>}

LocksErrArgs == {<<"f", "n1">>}

NextLocks ==
  \/ \E c \in Devices, args \in LocksRegisterArgs : handleRegister(c, args)
  \/ \E c \in Controllers, args \in LocksListArgs : handleList(c, args)
  \/ \E c \in Devices, args \in LocksMetricArgs : handleMetric(c, args)
  \/ \E c \in Controllers, args \in LocksMetricsArgs : handleMetrics(c, args)
  \/ \E c \in Controllers, args \in LocksRunArgs : handleRun(c, args)
  \/ \E c \in Devices, args \in LocksDoneArgs : handleDone(c, args)
  \/ \E c \in Devices, args \in LocksErrArgs : handleError(c, args)
  \/ \E c \in Conns : Proceed(c)
  \/ \E c \in Conns : Respond(c)
  \/ \E c \in Conns : ScanEnd(c)

\* Goroutines that are scheduled: a goroutine that can go on without its
\* peer does go on.  Every Write call completes; a peer may stay silent and
\* may never close.
SpecLocks == Init /\ [][NextLocks]_vars /\ \A c \in Conns : WF_vars(Proceed(c))

\* Two stations side by side: both report a metric, both are sent a run and
\* complete it.
StationsRegisterArgs == {<<"a", "t1">>, <<"b", "t1">>}

StationsMetricArgs == {<<"level", "1">>}

StationsRunArgs == {<<"a", "f", "n1">>, <<"b", "f", "n1">>}

StationsDoneArgs == {<<"f", "n1">>}

StationsErrArgs == {<<"f", "n1">>}

NextStations ==
  \/ \E c \in Devices, args \in StationsRegisterArgs : handleRegister(c, args)
  \/ \E c \in Devices, args \in StationsMetricArgs : handleMetric(c, args)
  \/ \E c \in Controllers, args \in StationsRunArgs : handleRun(c, args)
  \/ \E c \in Devices, args \in StationsDoneArgs : handleDone(c, args)
  \/ \E c \in Devices, args \in StationsErrArgs : handleError(c, args)
  \/ \E c \in Conns : MetricLock(c)
  \/ \E c \in Conns : MetricTrim(c)
  \/ \E c \in Conns : RunLock(c)
  \/ \E c \in Conns : RunWrite(c)
  \/ \E c \in Conns : RunNewline(c)
  \/ \E c \in Conns : RunSave(c)
  \/ \E c \in Conns : DoneLock(c)
  \/ \E c \in Conns : DoneWrite(c)
  \/ \E c \in Conns : DoneNewline(c)
  \/ \E c \in Conns : DoneDelete(c)
  \/ \E c \in Conns : ErrLock(c)
  \/ \E c \in Conns : ErrWrite(c)
  \/ \E c \in Conns : ErrDelete(c)
  \/ \E c \in Conns : Respond(c)
  \/ \E c \in Conns : Close(c)

SpecStations == Init /\ [][NextStations]_vars

\* ------------------------------------------------------------------ claims

\* Dispatcher c takes the step that leaves the place `from`.
Leaves(c, from) == pc[c] = from /\ pc'[c] # from

\* Dispatcher c's handler returns in this step, and what it returns.
Returns(c) == pc[c] # "resp" /\ pc'[c] = "resp"

ReturnsAck(c) == Returns(c) /\ ~frame'[c].err /\ frame'[c].resp = <<"ACK">>

ReturnsErr(c) == Returns(c) /\ frame'[c].err

\* The Write call that was made last on connection c, after this step.
LastWrite(c) == out'[c][Len(out'[c])]

\* The stations whose owning connection is c.
Owned(c) == {S \in DOMAIN stations : stations[S].c = c}

\* The DONE or ERR line dispatcher c has read is well formed.
Completing(c) ==
  \/ frame'[c].cmdParts[1] = "DONE" /\ Len(frame'[c].cmdParts) \in {3, 4}
  \/ frame'[c].cmdParts[1] = "ERR" /\ Len(frame'[c].cmdParts) = 3

\* The RUN half of the round trip: an accepted RUN S f n [p] from c is
\* written to S's owning connection as "RUN f n", " p" when there is a
\* parameter, and a newline; then the run is recorded for c and c gets ACK.
RunHalf(c) ==
  LET S == frame[c].station
      args == MyArgs(c)
      to == stations[S].c
  IN  /\ Leaves(c, "runWrite") /\ Open(to) =>
           /\ LastWrite(to) = [by |-> c, text |-> <<"RUN", args[2], args[3]>>, nl |-> FALSE]
           /\ pc'[c] = IF Len(args) = 4 THEN "runParam" ELSE "runNewline"
      /\ Leaves(c, "runParam") /\ Open(to) =>
           /\ LastWrite(to) = [by |-> c, text |-> <<args[4]>>, nl |-> FALSE]
           /\ pc'[c] = "runNewline"
      /\ Leaves(c, "runNewline") /\ Open(to) =>
           /\ LastWrite(to) = [by |-> c, text |-> << >>, nl |-> TRUE]
           /\ pc'[c] = "runSave"
      /\ Leaves(c, "runSave") =>
           /\ ReturnsAck(c)
           /\ stations'[S].runs[args[3]].client = c

\* The DONE half: the DONE f n [r] of a connection that owns a station with
\* n pending is not refused, and what it writes to the requester is
\* "DONE S f n", " r" when there is a result, and a newline; then it gets ACK.
DoneHalf(c) ==
  LET S == frame[c].station
      args == MyArgs(c)
      to == MyRun(c).client
  IN  /\ ReturnsErr(c) /\ frame'[c].cmdParts[1] = "DONE" /\ Completing(c) =>
           \A T \in Owned(c) : ~NonceKnown(stations[T], frame'[c].cmdParts[3])
      /\ Leaves(c, "doneWrite") /\ Open(to) =>
           /\ LastWrite(to) = [by |-> c, text |-> <<"DONE", S, args[1], args[2]>>, nl |-> FALSE]
           /\ pc'[c] = IF Len(args) = 3 THEN "doneResult" ELSE "doneNewline"
      /\ Leaves(c, "doneResult") /\ Open(to) =>
           /\ LastWrite(to) = [by |-> c, text |-> <<args[3]>>, nl |-> FALSE]
           /\ pc'[c] = "doneNewline"
      /\ Leaves(c, "doneNewline") /\ Open(to) =>
           /\ LastWrite(to) = [by |-> c, text |-> << >>, nl |-> TRUE]
           /\ pc'[c] = "doneDelete"
      /\ Leaves(c, "doneDelete") => ReturnsAck(c)

\* C1: a RUN S f n [p] for a registered station S on which n is not pending
\* gets ACK and puts the line RUN f n [p] on S's owning connection; when that
\* connection then sends DONE f n [r] it gets ACK and the line DONE S f n [r]
\* is written to the connection that sent the RUN.
C1_RoundTrip == [][\A c \in Conns : RunHalf(c) /\ DoneHalf(c)]_vars

\* The places of a handler that holds its station's runsM.
RunPlaces == {"runWrite", "runParam", "runNewline", "runSave"}

DonePlaces == {"doneWrite", "doneResult", "doneNewline", "doneDelete"}

ErrPlaces == {"errWrite", "errDelete"}

\* The nonce of the RUN, DONE or ERR dispatcher c is handling.
MyNonce(c) == IF frame[c].cmdParts[1] = "RUN" THEN MyArgs(c)[3] ELSE MyArgs(c)[2]

\* A handler in those places holds the mutex it took; a RUN has found its
\* nonce free there, a DONE or ERR has found its nonce pending.
Holding(c) ==
  /\ pc[c] \in RunPlaces \cup DonePlaces \cup ErrPlaces =>
       MyStation(c).runsM = c
  /\ pc[c] \in RunPlaces => MyNonce(c) \notin DOMAIN MyStation(c).runs
  /\ pc[c] \in DonePlaces \cup ErrPlaces => MyNonce(c) \in DOMAIN MyStation(c).runs

\* A DONE or ERR that finds its nonce not pending on the caller's station
\* returns an error, and the step writes nothing and changes no station.
Refuses(c) ==
  (Leaves(c, "doneLock") \/ Leaves(c, "errLock"))
    /\ frame[c].cmdParts[3] \notin DOMAIN stations[name[c]].runs
  => ReturnsErr(c) /\ out' = out /\ stations' = stations

\* A DONE or ERR that wrote to the requester ends by removing the pending
\* run it answered and returning ACK.
Consumes(c) ==
  Leaves(c, "doneDelete") \/ Leaves(c, "errDelete") =>
    /\ frame[c].cmdParts[3] \notin DOMAIN stations'[frame[c].station].runs
    /\ stations'[frame[c].station].runsM = Unlocked
    /\ ReturnsAck(c)

\* Only the first Write call of a DONE or ERR that found its nonce pending
\* starts a DONE or ERR line on another connection.
Forwards(c) ==
  \A to \in Conns \ {c} :
    /\ out'[to] # out[to]
    /\ LastWrite(to).by = c
    /\ LastWrite(to).text # << >>
    /\ LastWrite(to).text[1] \in {"DONE", "ERR"}
    => Leaves(c, "doneWrite") \/ Leaves(c, "errWrite")

\* C2: a completion is forwarded only by a DONE or ERR that holds the
\* station's runsM and has found the nonce pending; it removes the pending run
\* before it releases the mutex, so one accepted RUN is answered at most once.
\* A DONE or ERR whose nonce is not pending on the caller's station (completed
\* already, or never issued) returns an error and forwards nothing.
C2_AtMostOnce ==
  [][\A c \in Conns : Holding(c)' /\ Refuses(c) /\ Consumes(c) /\ Forwards(c)]_vars

\* C2 witness: station a's DONE f n1 p was forwarded to c3, and the next
\* completion of n1 by the same connection has been refused.
C2_Witness ==
  /\ "a" \in DOMAIN stations
  /\ "n1" \notin DOMAIN stations["a"].runs
  /\ out["c3"] = << [by |-> "c1", text |-> <<"DONE", "a", "f", "n1">>, nl |-> FALSE],
                    [by |-> "c1", text |-> <<"p">>, nl |-> FALSE],
                    [by |-> "c1", text |-> << >>, nl |-> TRUE] >>
  /\ name["c1"] = "a"
  /\ pc["c1"] = "resp"
  /\ frame["c1"].err
  /\ frame["c1"].cmdParts = <<"ERR", "f", "n1">>

\* The ERR half of the error path, as DoneHalf is for DONE: one Write call,
\* "ERR S f n" with its newline.
ErrHalf(c) ==
  LET S == frame[c].station
      args == MyArgs(c)
      to == MyRun(c).client
  IN  /\ ReturnsErr(c) /\ frame'[c].cmdParts[1] = "ERR" /\ Completing(c) =>
           \A T \in Owned(c) : ~NonceKnown(stations[T], frame'[c].cmdParts[3])
      /\ Leaves(c, "errWrite") /\ Open(to) =>
           /\ LastWrite(to) = [by |-> c, text |-> <<"ERR", S, args[1], args[2]>>, nl |-> TRUE]
           /\ pc'[c] = "errDelete"
      /\ Leaves(c, "errDelete") =>
           /\ ReturnsAck(c)
           /\ args[2] \notin DOMAIN stations'[S].runs

\* C3: when n is pending on station S and S's connection sends ERR f n, it
\* gets ACK, the requester's connection gets the line ERR S f n with no
\* result, and the pending run is removed.
C3_ErrorPath == [][\A c \in Conns : ErrHalf(c)]_vars

\* Dispatcher d has returned from an accepted RUN S f n and has not yet
\* written its ACK.
AckDue(d, S, n) ==
  /\ pc[d] = "resp"
  /\ ~frame[d].err
  /\ frame[d].cmdParts[1] = "RUN"
  /\ frame[d].cmdParts[2] = S
  /\ frame[d].cmdParts[4] = n

\* C4: the ACK of an accepted RUN is written to the requester before the
\* DONE or ERR line of that run: no completion of a run has been written to
\* its requester while the requester's ACK is still due.
C4_AckFirst ==
  \A c, d \in Conns :
    pc[c] \in {"doneResult", "doneNewline", "doneDelete", "errDelete"}
      /\ MyRun(c).client = d
    => ~AckDue(d, frame[c].station, MyNonce(c))

\* Two handlers that hold a runsM hold those of different stations.
Exclusive(c, d) ==
  c # d /\ {pc[c], pc[d]} \subseteq RunPlaces \cup DonePlaces \cup ErrPlaces
    => frame[c].station # frame[d].station

\* A RUN that finds its nonce pending returns an error, and the step writes
\* nothing and records nothing.
Collides(c) ==
  Leaves(c, "runLock") /\ frame[c].cmdParts[4] \in DOMAIN stations[frame[c].cmdParts[2]].runs
    => ReturnsErr(c) /\ out' = out /\ stations' = stations

\* A RUN that finds its nonce free takes the mutex and goes on to forward.
Wins(c) ==
  Leaves(c, "runLock") /\ frame[c].cmdParts[4] \notin DOMAIN stations[frame[c].cmdParts[2]].runs
    => pc'[c] = "runWrite" /\ stations'[frame[c].station].runsM = c

C6_NoncePerStation ==
  [][\A c \in Conns :
       Leaves(c, "runLock") =>
         (ReturnsErr(c) <=>
            frame[c].cmdParts[4] \in DOMAIN stations[frame[c].cmdParts[2]].runs)]_vars

\* C6 witness: the nonce n1 is pending on the stations a and b at once.
C6_Witness ==
  /\ {"a", "b"} \subseteq DOMAIN stations
  /\ "n1" \in DOMAIN stations["a"].runs
  /\ "n1" \in DOMAIN stations["b"].runs

\* The places of a LIST reply that name the station S.
Listed(reply, S) == {i \in 2..Len(reply) : reply[i][1] = S}

\* C7: a LIST reply is the word LIST followed by one name:type pair for each
\* station registered when LIST is handled, and nothing else.
C7_ListExactlyOnce ==
  [][\A c \in Conns :
       Returns(c) /\ frame'[c].cmdParts = <<"LIST">> =>
         LET reply == frame'[c].resp
         IN  /\ ~frame'[c].err
             /\ reply[1] = "LIST"
             /\ Len(reply) = 1 + Cardinality(DOMAIN stations)
             /\ \A S \in DOMAIN stations :
                  /\ Cardinality(Listed(reply, S)) = 1
                  /\ \A i \in Listed(reply, S) : reply[i] = <<S, stations[S].tipe>>]_vars

\* C7 witness: a LIST reply that names the two registered stations.
C7_Witness ==
  \E c \in Conns :
    /\ pc[c] = "resp"
    /\ frame[c].cmdParts = <<"LIST">>
    /\ Len(frame[c].resp) = 3
    /\ Cardinality(DOMAIN stations) = 2

\* C8: REGISTER with a name that is in the registry returns an error and
\* changes neither the registry (the station's type, connection, metrics and
\* pending runs) nor any connection's name.
C8_DuplicateRegister ==
  [][\A c \in Conns :
       /\ Returns(c)
       /\ frame'[c].cmdParts[1] = "REGISTER"
       /\ Len(frame'[c].cmdParts) = 3
       /\ frame'[c].cmdParts[2] \in DOMAIN stations
       => ReturnsErr(c) /\ stations' = stations /\ name' = name]_vars

\* C8 witness: c2's REGISTER a t2 has been refused; a is c1's station of
\* type t1.
C8_Witness ==
  /\ pc["c2"] = "resp"
  /\ frame["c2"].err
  /\ frame["c2"].cmdParts = <<"REGISTER", "a", "t2">>
  /\ "a" \in DOMAIN stations
  /\ stations["a"].c = "c1"
  /\ stations["a"].tipe = "t1"
  /\ name["c2"] = ""

\* C9: once a connection has a name, no REGISTER changes it.
C9_TagOnce == [][\A c \in Conns : name[c] # "" => name'[c] = name[c]]_vars

\* C10: when the dispatcher of a connection has finished, the registry holds
\* no station whose owning connection it is.
C10_UnregisterOnClose == \A c \in Conns : pc[c] = "closed" => Owned(c) = {}

\* Dispatcher c reads a line in this step and calls the handler of cmd.
Invokes(c, cmd) ==
  /\ pc[c] = "scan"
  /\ pc'[c] \notin {"scan", "closing", "closed"}
  /\ frame'[c].cmdParts[1] = cmd

\* C11: METRIC, DONE and ERR from a connection without a name return an
\* error at once, whatever their arguments and whatever the registry holds;
\* the step changes no station (metrics, pending runs), no name, and writes
\* nothing; the dispatcher then answers ERR.
C11_UnregisteredRefused ==
  [][\A c \in Conns :
       /\ name[c] = "" /\ (Invokes(c, "METRIC") \/ Invokes(c, "DONE") \/ Invokes(c, "ERR"))
            => /\ ReturnsErr(c)
               /\ stations' = stations
               /\ name' = name
               /\ out' = out
       /\ name[c] = "" /\ Leaves(c, "resp") /\ frame[c].cmdParts[1] \in {"METRIC", "DONE", "ERR"}
            => LastWrite(c) = [by |-> c, text |-> <<"ERR">>, nl |-> TRUE]]_vars

\* C11 witness: n1 is pending on c1's station a, nobody has registered the
\* empty name, and the DONE f n1 of c2, which has no name, has been refused.
C11_Witness ==
  /\ DOMAIN stations = {"a"}
  /\ stations["a"].c = "c1"
  /\ "n1" \in DOMAIN stations["a"].runs
  /\ name["c2"] = ""
  /\ pc["c2"] = "resp"
  /\ frame["c2"].err
  /\ frame["c2"].cmdParts = <<"DONE", "f", "n1">>

\* The points a METRICS name metric reply lists.
Listing(reply) == SubSeq(reply, 4, Len(reply))

\* Dispatcher c holds the reply of a METRICS name metric it has handled.
HoldsSeries(c) ==
  /\ pc[c] = "resp"
  /\ ~frame[c].err
  /\ frame[c].cmdParts[1] = "METRICS"
  /\ Len(frame[c].cmdParts) = 3

\* C12: whenever a station's metric lock is free, each of its metrics holds at
\* most maxMetricPoints points; and no METRICS reply lists more than
\* maxMetricPoints points, also when it was built while a METRIC on the same
\* station was between its append and its trim.
C12_BoundedRetention ==
  /\ \A S \in DOMAIN stations :
       stations[S].m = Unlocked =>
         \A metricName \in DOMAIN stations[S].metrics :
           Len(stations[S].metrics[metricName]) <= maxMetricPoints
  /\ \A c \in Conns :
       HoldsSeries(c) => Len(Listing(frame[c].resp)) <= maxMetricPoints

\* C12 witness: c1's METRIC has appended a point over the cap and holds the
\* metric lock of a, and a METRICS a level waits for that lock.
C12_Witness ==
  /\ "a" \in DOMAIN stations
  /\ stations["a"].m = "c1"
  /\ pc["c1"] = "metricTrim"
  /\ Len(Points(stations["a"], "level")) = maxMetricPoints + 1
  /\ \E c \in Conns :
       /\ pc[c] = "metricsLock"
       /\ frame[c].cmdParts = <<"METRICS", "a", "level">>

\* The smaller of two numbers.
Min(x, y) == IF x < y THEN x ELSE y

\* The last k elements of a sequence.
LastOf(seq, k) == SubSeq(seq, Len(seq) - k + 1, Len(seq))

\* The METRIC of dispatcher c puts its value at the end of the metric's
\* sequence and touches no other metric.
Records(c) ==
  LET S == frame[c].station
      metricName == MyArgs(c)[1]
      old == Points(stations[S], metricName)
      new == stations'[S].metrics[metricName]
  IN  Leaves(c, "metricLock") =>
        /\ Len(new) = Len(old) + 1
        /\ SubSeq(new, 1, Len(old)) = old
        /\ new[Len(new)].value = ParseFloat(MyArgs(c)[2]).value
        /\ \A other \in DOMAIN stations[S].metrics \ {metricName} :
             stations'[S].metrics[other] = stations[S].metrics[other]

\* It then leaves the last min(n, maxMetricPoints) points in their order, and
\* drops at most one point, the oldest.
Evicts(c) ==
  LET S == frame[c].station
      metricName == MyArgs(c)[1]
      old == stations[S].metrics[metricName]
      new == stations'[S].metrics[metricName]
  IN  Leaves(c, "metricTrim") =>
        /\ new = LastOf(old, Min(Len(old), maxMetricPoints))
        /\ Len(old) - Len(new) <= 1
        /\ ReturnsAck(c)

\* METRICS station metric lists the values of the stored points, oldest first.
Reads(c) ==
  LET S == frame[c].station
      metricName == MyArgs(c)[2]
  IN  Leaves(c, "metricsLock") /\ Len(MyArgs(c)) = 2
        /\ metricName \in DOMAIN stations[S].metrics =>
        LET ms == stations[S].metrics[metricName]
            listing == Listing(frame'[c].resp)
        IN  /\ ~ReturnsErr(c)
            /\ Len(listing) = Len(ms)
            /\ \A i \in 1..Len(ms) : listing[i][2] = FormatFloat(ms[i].value)

\* C13: each METRIC appends its value to the metric's sequence and then, when
\* the sequence is longer than maxMetricPoints, drops the single oldest point;
\* METRICS station metric returns the stored values in insertion order: the
\* last min(n, maxMetricPoints) of the n recorded.
C13_FifoEviction == [][\A c \in Conns : Records(c) /\ Evicts(c) /\ Reads(c)]_vars

\* C13 witness: the server keeps one point; a recorded level 1 and then
\* level 2, and METRICS a level lists the 2 alone.
C13_Witness ==
  /\ maxMetricPoints = 1
  /\ nlines = 4
  /\ "a" \in DOMAIN stations
  /\ DOMAIN stations["a"].metrics = {"level"}
  /\ stations["a"].metrics["level"] = << [ts |-> 3, value |-> 2] >>
  /\ \E c \in Conns :
       /\ HoldsSeries(c)
       /\ frame[c].resp = <<"METRICS", "a", "level", <<3, "2.000000">> >>

\* The metric names a METRICS name reply lists.
Naming(reply) == SubSeq(reply, 3, Len(reply))

\* C14: METRICS name on a registered station returns METRICS name and each
\* metric name recorded on the station once, with no points; METRICS name
\* metric returns the points of that metric in stored order with their
\* times, or an error when the station has no such metric; METRICS with the
\* name of no registered station returns an error.
C14_MetricsReply ==
  [][\A c \in Conns :
       /\ Invokes(c, "METRICS") /\ Len(frame'[c].cmdParts) \in {2, 3}
            => (ReturnsErr(c) <=> frame'[c].cmdParts[2] \notin DOMAIN stations)
       /\ Leaves(c, "metricsLock") =>
            LET S == frame[c].cmdParts[2]
                known == DOMAIN stations[S].metrics
                reply == frame'[c].resp
            IN  /\ Returns(c)
                /\ Len(MyArgs(c)) = 1 =>
                     /\ ~ReturnsErr(c)
                     /\ SubSeq(reply, 1, 2) = <<"METRICS", S>>
                     /\ Len(Naming(reply)) = Cardinality(known)
                     /\ {Naming(reply)[i] : i \in 1..Len(Naming(reply))} = known
                /\ Len(MyArgs(c)) = 2 /\ MyArgs(c)[2] \notin known => ReturnsErr(c)
                /\ Len(MyArgs(c)) = 2 /\ MyArgs(c)[2] \in known =>
                     LET ms == stations[S].metrics[MyArgs(c)[2]]
                     IN  /\ ~ReturnsErr(c)
                         /\ SubSeq(reply, 1, 3) = <<"METRICS", S, MyArgs(c)[2]>>
                         /\ Len(Listing(reply)) = Len(ms)
                         /\ \A i \in 1..Len(ms) :
                              Listing(reply)[i] = <<ms[i].ts, FormatFloat(ms[i].value)>>]_vars

\* C14 witness: a METRICS a reply that names the two metrics of a.
C14_Witness ==
  \E c \in Conns :
    /\ pc[c] = "resp"
    /\ ~frame[c].err
    /\ frame[c].cmdParts = <<"METRICS", "a">>
    /\ "a" \in DOMAIN stations
    /\ DOMAIN stations["a"].metrics = {"level", "temp"}
    /\ Len(frame[c].resp) = 4

\* A line is read in this step and no handler is called with it.
ReadsNoCommand == nlines' # nlines /\ frame' = frame

\* C15: a line whose first token is no command (DOODLE, the blank line) gets
\* the one line ERR UNRECOGNIZED CMD on its own connection; nothing is written
\* to any other connection, the registry, the names and the locks stay as
\* they were, and every dispatcher, the reader's too, is where it was: the
\* reader goes on to its next line.
C15_Unrecognized ==
  [][ReadsNoCommand =>
       \E c \in Conns :
         /\ pc[c] = "scan"
         /\ pc'[c] = "scan"
         /\ out'[c] = << [by |-> c, text |-> <<"ERR", "UNRECOGNIZED", "CMD">>, nl |-> TRUE] >>
         /\ \A d \in Conns \ {c} : out'[d] = out[d] /\ pc'[d] = pc[d]
         /\ stations' = stations
         /\ stationsM' = stationsM
         /\ name' = name]_vars

\* C15 witness: c1 was answered ERR UNRECOGNIZED CMD and its next line,
\* REGISTER a t1, has been accepted.
C15_Witness ==
  /\ out["c1"] = << [by |-> "c1", text |-> <<"ERR", "UNRECOGNIZED", "CMD">>, nl |-> TRUE] >>
  /\ pc["c1"] = "resp"
  /\ frame["c1"].cmdParts = <<"REGISTER", "a", "t1">>
  /\ frame["c1"].resp = <<"ACK">>
  /\ name["c1"] = "a"
  /\ stations["a"].c = "c1"

\* The places where a handler waits for a station's lock: it has read its
\* line, checked it and found its station, and has changed nothing yet.
LockPlaces == {"runLock", "doneLock", "errLock", "metricLock", "metricsLock"}

\* The step changes no station (type, connection, metrics, pending runs, the
\* registry's keys), no name, and writes to no connection.
Untouched == stations' = stations /\ name' = name /\ out' = out

\* A handler returns an error, at its first step or after it has waited for
\* a lock: neither step has touched anything, and the handler holds no lock
\* afterwards.
FailsClean(c) ==
  /\ pc[c] = "scan" /\ pc'[c] \in LockPlaces => Untouched
  /\ ReturnsErr(c) =>
       /\ pc[c] \in {"scan"} \cup LockPlaces
       /\ Untouched
       /\ c \notin stationsM'
       /\ \A S \in DOMAIN stations' : stations'[S].m # c /\ stations'[S].runsM # c

\* The dispatcher answers a failed handler with one Write call, the line ERR,
\* on its own connection, and reads its next line.
AnswersErr(c) ==
  Leaves(c, "resp") /\ frame[c].err =>
    /\ LastWrite(c) = [by |-> c, text |-> <<"ERR">>, nl |-> TRUE]
    /\ Len(out'[c]) = IF Ended(out[c]) THEN 1 ELSE Len(out[c]) + 1
    /\ \A d \in Conns \ {c} : out'[d] = out[d]
    /\ stations' = stations
    /\ name' = name
    /\ pc'[c] = "scan"

\* C16: a handler that fails (argument count, unparsable float, unknown
\* station, metric or nonce, nonce in use, name already registered, caller
\* not registered) has changed no station, no name and written nothing when
\* it returns; the dispatcher then writes the line ERR to the caller, nothing
\* to anybody else, and goes on reading.
C16_FailuresAreClean == [][\A c \in Conns : FailsClean(c) /\ AnswersErr(c)]_vars

\* C16 witness: station a's METRIC level something has failed at the float.
C16_Witness ==
  \E c \in Conns :
    /\ name[c] = "a"
    /\ pc[c] = "resp"
    /\ frame[c].err
    /\ frame[c].cmdParts = <<"METRIC", "level", "something">>

\* What a RUN does, told from the registry and its arguments alone: refused
\* at once for its argument count or an unknown station, refused after the
\* lock for a pending nonce; otherwise forwarded to the station's connection
\* and recorded with the caller as its client.
RunOutcome(c) ==
  /\ Invokes(c, "RUN") =>
       /\ ReturnsErr(c) <=> \/ Len(frame'[c].cmdParts) \notin {4, 5}
                            \/ frame'[c].cmdParts[2] \notin DOMAIN stations
       /\ Untouched
  /\ Collides(c) /\ Wins(c) /\ RunHalf(c)
  /\ Leaves(c, "runSave") =>
       /\ stations' = [stations EXCEPT
            ![frame[c].station].runs =
               MapPut(@, MyArgs(c)[3], [client |-> c, name |-> frame[c].station]),
            ![frame[c].station].runsM = Unlocked]
       /\ name' = name /\ out' = out

\* What a LIST does: refused for its argument count, otherwise one pair for
\* each station.
ListOutcome(c) ==
  Invokes(c, "LIST") =>
    /\ ReturnsErr(c) <=> Len(frame'[c].cmdParts) # 1
    /\ Untouched
    /\ ~ReturnsErr(c) =>
         {frame'[c].resp[i] : i \in 2..Len(frame'[c].resp)}
           = {<<S, stations[S].tipe>> : S \in DOMAIN stations}

\* What a METRICS does: refused at once for its argument count or an unknown
\* station, refused after the lock for an unknown metric.
MetricsOutcome(c) ==
  /\ Invokes(c, "METRICS") =>
       /\ ReturnsErr(c) <=> \/ Len(frame'[c].cmdParts) \notin {2, 3}
                            \/ frame'[c].cmdParts[2] \notin DOMAIN stations
       /\ Untouched
  /\ Leaves(c, "metricsLock") =>
       /\ ReturnsErr(c) <=> /\ Len(MyArgs(c)) = 2
                            /\ MyArgs(c)[2] \notin DOMAIN MyStation(c).metrics
       /\ Untouched

\* C17: what RUN, LIST and METRICS answer and change is fixed by the registry
\* and their arguments; the caller's name plays no part, so a connection with
\* no name, a station, and the target station itself are treated alike, and
\* none of the three commands changes a name.
C17_CallerIndependent ==
  [][\A c \in Conns : RunOutcome(c) /\ ListOutcome(c) /\ MetricsOutcome(c)]_vars

\* C17 witness: c2 is station a and its own RUN a f n1 is pending on a.
C17_Witness ==
  /\ name["c2"] = "a"
  /\ "a" \in DOMAIN stations
  /\ stations["a"].c = "c2"
  /\ "n1" \in DOMAIN stations["a"].runs
  /\ stations["a"].runs["n1"].client = "c2"

\* The end of dispatcher c takes the station under its name out of the
\* registry together with its pending runs, writes to nobody and leaves the
\* other stations alone; a finished dispatcher takes no further step.
DropsUnanswered(c) ==
  /\ Leaves(c, "scan") /\ ~Open(c)' => Untouched
  /\ Leaves(c, "closing") =>
       /\ pc'[c] = "closed"
       /\ out' = out
       /\ DOMAIN stations' = DOMAIN stations \ {name[c]}
       /\ \A S \in DOMAIN stations' : stations'[S] = stations[S]
  /\ pc[c] = "closed" => pc'[c] = "closed"

\* A REGISTER that is accepted makes a station that has no pending run.
StartsEmpty(c) ==
  ReturnsAck(c) /\ frame'[c].cmdParts[1] = "REGISTER" =>
    /\ frame'[c].cmdParts[2] \notin DOMAIN stations
    /\ stations'[frame'[c].cmdParts[2]].runs = EmptyMap

\* A DONE or ERR line is written only by the dispatcher of the connection
\* the station belongs to, for a run that is in that station's table now.
AnswersOwn(c) ==
  Leaves(c, "doneWrite") \/ Leaves(c, "errWrite") =>
    /\ frame[c].station = name[c]
    /\ MyStation(c).c = c
    /\ MyNonce(c) \in DOMAIN MyStation(c).runs

\* C18: when a station's connection ends, its pending runs go with the
\* station and nobody is told: the end writes no DONE or ERR, a station
\* registered later under the same name starts with no pending run, and
\* completions are forwarded only from the table of the caller's own station,
\* so a DONE or ERR with the old nonce from the new owner is refused.
C18_PendingRunsDropped ==
  [][\A c \in Conns : DropsUnanswered(c) /\ StartsEmpty(c) /\ AnswersOwn(c)]_vars

\* C18 witness: c1 was station a and got RUN f n1 before it ended; c2 has
\* registered a anew, and its DONE with the nonce n1 has been refused.
C18_Witness ==
  /\ pc["c1"] = "closed"
  /\ name["c1"] = "a"
  /\ Len(out["c1"]) = 2
  /\ out["c1"][1].text = <<"RUN", "f", "n1">>
  /\ "a" \in DOMAIN stations
  /\ stations["a"].c = "c2"
  /\ stations["a"].runs = EmptyMap
  /\ pc["c2"] = "resp"
  /\ frame["c2"].err
  /\ frame["c2"].cmdParts = <<"DONE", "g", "n1">>

\* C19: no connection is the owning connection of two stations of the
\* registry.
C19_OneStationPerConn == \A c \in Conns : Cardinality(Owned(c)) <= 1

\* The places where the next thing a handler does is a Write call on another
\* dispatcher's connection.
WritePlaces ==
  {"runWrite", "runParam", "runNewline", "doneWrite", "doneResult", "doneNewline", "errWrite"}

\* C20: a dispatcher that is about to write a RUN, DONE or ERR line, or a
\* part of one, to a peer connection does not hold the registry lock.
C20_NoWriteUnderRegistryLock == \A c \in Conns : pc[c] \in WritePlaces => c \notin stationsM

\* The per-station locks dispatcher c holds: metric locks and run locks.
StationLocks(c) ==
  {S \in DOMAIN stations : stations[S].m = c \/ stations[S].runsM = c}

\* C21: no dispatcher holds the registry lock and a station's metric lock or
\* pending-run lock at the same time.
C21_LockOrdering == \A c \in Conns : c \in stationsM => StationLocks(c) = {}

\* Dispatcher c has a command in hand: it has read the line and has not
\* answered it yet.
Busy(c) == pc[c] \notin {"scan", "closing", "closed"}

\* Dispatcher c takes a line only when it has no command in hand, and one
\* line at a time.
TakesOne(c) ==
  ~Busy(c) /\ Busy(c)' =>
    /\ pc[c] = "scan"
    /\ frame[c] = NoFrame
    /\ frame'[c].cmdParts # << >>
    /\ nlines' = nlines + 1

\* While it has a command in hand it keeps that command, reads no line and
\* does not end; the step that answers is the only way back to reading.
KeepsCommand(c) ==
  Busy(c) =>
    /\ Busy(c)' => frame'[c].cmdParts = frame[c].cmdParts
    /\ ~Busy(c)' => Leaves(c, "resp") /\ pc'[c] = "scan" /\ frame'[c] = NoFrame

\* The answer is one Write call on c's own connection: the line ERR when the
\* handler failed, its response otherwise.
AnswersOnce(c) ==
  Leaves(c, "resp") =>
    /\ out'[c] # << >>
    /\ LastWrite(c) = [by |-> c,
                       text |-> IF frame[c].err THEN <<"ERR">> ELSE frame[c].resp,
                       nl |-> TRUE]
    /\ Len(out'[c]) = IF Ended(out[c]) THEN 1 ELSE Len(out[c]) + 1

\* Apart from the RUN a connection forwards to itself, dispatcher c writes on
\* its own connection only to answer the command in hand, or the line that
\* is no command in the step that reads it.
AnswersOnly(c) ==
  out'[c] # out[c] /\ LastWrite(c).by = c /\ pc[c] \notin WritePlaces =>
    \/ Leaves(c, "resp")
    \/ pc[c] = "scan" /\ pc'[c] = "scan" /\ nlines' = nlines + 1

\* C22: on each connection reading and answering alternate: the dispatcher
\* reads a line, handles that command and writes its one answer line before it
\* reads the next, so the k-th answer it writes is the answer to the k-th
\* line.
C22_OneAnswerPerLine ==
  [][\A c \in Conns : TakesOne(c) /\ KeepsCommand(c) /\ AnswersOnce(c) /\ AnswersOnly(c)]_vars

\* C22 witness: station c1 was answered for REGISTER, then got a RUN from
\* another dispatcher, and now the answer to its second line, DONE f n1, is
\* due.
C22_Witness ==
  /\ Len(out["c1"]) = 2
  /\ out["c1"][1].text = <<"RUN", "f", "n1">>
  /\ out["c1"][1].by # "c1"
  /\ pc["c1"] = "resp"
  /\ frame["c1"].cmdParts = <<"DONE", "f", "n1">>
  /\ frame["c1"].resp = <<"ACK">>
  /\ nlines = 3

\* C23: a REGISTER that returns ACK puts a new station under its name: no
\* metric, no pending run, both locks free, the caller as its connection and
\* the given type; the name was not in the registry, the caller gets the name,
\* and the other stations are as they were.  So a name that is registered
\* again after its station was removed shows nothing of the old station.
C23_FreshStation ==
  [][\A c \in Conns :
       ReturnsAck(c) /\ frame'[c].cmdParts[1] = "REGISTER" =>
         LET S == frame'[c].cmdParts[2]
         IN  /\ S \notin DOMAIN stations
             /\ DOMAIN stations' = DOMAIN stations \cup {S}
             /\ stations'[S].metrics = EmptyMap
             /\ stations'[S].runs = EmptyMap
             /\ stations'[S].m = Unlocked
             /\ stations'[S].runsM = Unlocked
             /\ stations'[S].c = c
             /\ stations'[S].tipe = frame'[c].cmdParts[3]
             /\ name'[c] = S
             /\ \A T \in DOMAIN stations : stations'[T] = stations[T]]_vars

\* C23 witness: c1 was station a and got RUN f n1 before it ended; c2 has
\* registered a anew and a RUN with the same nonce n1 is pending on it.
C23_Witness ==
  /\ pc["c1"] = "closed"
  /\ name["c1"] = "a"
  /\ Len(out["c1"]) = 2
  /\ out["c1"][1].text = <<"RUN", "f", "n1">>
  /\ "a" \in DOMAIN stations
  /\ stations["a"].c = "c2"
  /\ DOMAIN stations["a"].runs = {"n1"}
  /\ stations["a"].metrics = EmptyMap

\* The stations this step takes out of the registry.
Removed == DOMAIN stations \ DOMAIN stations'

\* C24: the end of the read loop leaves the registry alone; a dispatcher
\* without a name is finished with that, a dispatcher with a name goes on to
\* the unregistration, once.  The unregistration removes at most the station
\* under the dispatcher's own name, which its own connection owns, and leaves
\* every other station as it was; nothing else ever removes a station.
C24_UnregisterFrame ==
  [][/\ \A c \in Conns :
          /\ Leaves(c, "scan") /\ ~Open(c)' =>
               /\ stations' = stations
               /\ pc'[c] = "closed" <=> name[c] = ""
          /\ Leaves(c, "closing") =>
               /\ name[c] # ""
               /\ pc'[c] = "closed"
               /\ \A S \in Removed : S = name[c] /\ stations[S].c = c
               /\ \A S \in DOMAIN stations' : S \in DOMAIN stations /\ stations'[S] = stations[S]
          /\ pc[c] = "closed" => pc'[c] = "closed"
     /\ Removed # {} => \E c \in Conns : Leaves(c, "closing")]_vars

\* C24 witness: c1 was station a and has ended: a is gone, and the station
\* of c2 is still in the registry.
C24_Witness ==
  /\ pc["c1"] = "closed"
  /\ name["c1"] = "a"
  /\ "a" \notin DOMAIN stations
  /\ \E S \in DOMAIN stations : stations[S].c = "c2"

\* The places of a handler between its first step and its return.
HandlerPlaces == LockPlaces \cup RunPlaces \cup DonePlaces \cup ErrPlaces \cup {"metricTrim"}

\* The station the command in dispatcher c's hand is about: the one RUN
\* names, the one under the caller's name for METRIC, DONE and ERR.
Target(c) ==
  IF frame[c].cmdParts[1] = "RUN" THEN frame[c].cmdParts[2] ELSE name[c]

\* A step of a handler changes at most the station it is about, and of that
\* station a METRIC changes at most the metric store and its lock, a RUN,
\* DONE or ERR at most the pending runs and their lock; type and owning
\* connection never change.
Isolated(c) ==
  pc[c] \in HandlerPlaces /\ pc'[c] # pc[c] =>
    LET S == Target(c)
    IN  /\ frame[c].station = S
        /\ DOMAIN stations' = DOMAIN stations
        /\ \A T \in DOMAIN stations \ {S} : stations'[T] = stations[T]
        /\ stations'[S].c = stations[S].c
        /\ stations'[S].tipe = stations[S].tipe
        /\ frame[c].cmdParts[1] = "METRIC" =>
             stations'[S].runs = stations[S].runs /\ stations'[S].runsM = stations[S].runsM
        /\ frame[c].cmdParts[1] \in {"RUN", "DONE", "ERR"} =>
             stations'[S].metrics = stations[S].metrics /\ stations'[S].m = stations[S].m

\* The first step of METRIC, RUN, DONE and ERR and the answer of any command
\* change no station.
Harmless(c) ==
  /\ pc[c] = "scan" /\ Busy(c)' /\ frame'[c].cmdParts[1] # "REGISTER" => stations' = stations
  /\ Leaves(c, "resp") => stations' = stations

\* C25: METRIC from the connection named X changes only X's metric store,
\* RUN for X and DONE or ERR from the connection named X change only X's
\* pending runs; no step of these commands changes another station, or any
\* station's type or owning connection.
C25_StationIsolation == [][\A c \in Conns : Isolated(c) /\ Harmless(c)]_vars

\* C25 witness: two stations; a has recorded a metric and has no pending
\* run, b has a pending run and no metric.
C25_Witness ==
  /\ DOMAIN stations = {"a", "b"}
  /\ DOMAIN stations["a"].metrics = {"level"}
  /\ stations["a"].runs = EmptyMap
  /\ DOMAIN stations["b"].runs = {"n1"}
  /\ stations["b"].metrics = EmptyMap

\* The METRIC line dispatcher c has read has two arguments and a value that
\* parses.
WellFormedMetric(c) ==
  /\ frame'[c].cmdParts[1] = "METRIC"
  /\ Len(frame'[c].cmdParts) = 3
  /\ ~ParseFloat(frame'[c].cmdParts[3]).err

\* C26: a REGISTER that returns ACK leaves the caller registered, whatever
\* its name token is: a well-formed METRIC from a connection that owns a
\* station is not refused, and a dispatcher that ends without unregistering
\* owns no station.
C26_RegisteredAfterAck ==
  [][\A c \in Conns :
       /\ ReturnsAck(c) /\ frame'[c].cmdParts[1] = "REGISTER" => Registered(c)'
       /\ Invokes(c, "METRIC") /\ WellFormedMetric(c) /\ Owned(c) # {} => ~ReturnsErr(c)
       /\ Leaves(c, "scan") /\ pc'[c] = "closed" => Owned(c) = {}]_vars

\* The run n on station S was asked for by a connection that has gone.
Abandoned(S, n) ==
  /\ S \in DOMAIN stations
  /\ n \in DOMAIN stations[S].runs
  /\ ~Open(stations[S].runs[n].client)

\* The end of a connection leaves the pending runs of every station that
\* stays in the registry as they were, those it asked for too.
KeepsPending(c) ==
  /\ Leaves(c, "scan") /\ ~Open(c)' => stations' = stations
  /\ Leaves(c, "closing") => \A S \in DOMAIN stations' : stations'[S] = stations[S]

\* A DONE or ERR for an abandoned run from the connection that owns the
\* station is not refused; its writes reach nobody, and it ends by removing
\* the run and returning ACK.
CompletesAbandoned(c) ==
  /\ ReturnsErr(c) /\ frame'[c].cmdParts[1] \in {"DONE", "ERR"} /\ Completing(c) =>
       \A S \in Owned(c) : ~Abandoned(S, frame'[c].cmdParts[3])
  /\ pc[c] \in {"doneWrite", "doneResult", "doneNewline", "errWrite"}
       /\ pc'[c] # pc[c] /\ Abandoned(frame[c].station, MyNonce(c)) => out' = out
  /\ Consumes(c)

\* C27: when the connection that asked for a run ends, the run stays
\* pending: a later DONE or ERR with its nonce from the station's connection
\* gets ACK and removes it, the forward being lost, and until then a RUN with
\* the same nonce for that station is refused.
C27_NoCancellation ==
  [][\A c \in Conns : KeepsPending(c) /\ CompletesAbandoned(c) /\ Collides(c)]_vars

\* Every metric a METRICS name reply names holds a point on the station.
ListsStored(c) ==
  Leaves(c, "metricsLock") /\ Len(MyArgs(c)) = 1 =>
    \A i \in 1..Len(Naming(frame'[c].resp)) :
      Len(Points(stations[frame[c].station], Naming(frame'[c].resp)[i])) >= 1

\* A METRICS name metric that is not refused lists a point.
SeriesNonEmpty(c) ==
  Leaves(c, "metricsLock") /\ Len(MyArgs(c)) = 2 /\ ~ReturnsErr(c) =>
    Len(Listing(frame'[c].resp)) >= 1

\* The metric of a METRIC that returns ACK is one of the station's metrics.
AckedListed(c) ==
  Leaves(c, "metricTrim") /\ ReturnsAck(c) =>
    MyArgs(c)[1] \in DOMAIN stations'[frame[c].station].metrics

\* C28: whatever maxMetricPoints the server was built with, 0 too, every
\* metric that METRICS name names holds at least one point and METRICS name
\* metric lists a point for it; and every metric of a METRIC that returned
\* ACK is named.
C28_ListedMetricsHavePoints ==
  [][\A c \in Conns : ListsStored(c) /\ SeriesNonEmpty(c) /\ AckedListed(c)]_vars

\* C29: every message reaches its connection as one line of its own: the
\* Write calls that make up the line a connection is receiving all come from
\* one dispatcher, under every interleaving of the dispatchers.
C29_LineAtomicity ==
  \A c \in Conns :
    \A i, j \in 1..Len(out[c]) : out[c][i].by = out[c][j].by

\* The function tokens of the RUN commands: every pending run was created by
\* a RUN that named one of them.
RunFunctions == {args[2] : args \in RpcRunArgs}

\* The first Write call of a DONE or ERR forward carries the function token
\* of a RUN.
ForwardsRunFunction(c) ==
  Leaves(c, "doneWrite") \/ Leaves(c, "errWrite") =>
    \A to \in Conns \ {c} :
      out'[to] # out[to] => LastWrite(to).text[3] \in RunFunctions

\* A DONE or ERR that names a function no RUN named writes to nobody.
KeepsForeignFunction(c) ==
  (Leaves(c, "doneWrite") \/ Leaves(c, "errWrite")) /\ MyArgs(c)[1] \notin RunFunctions =>
    out' = out

\* C30: the function token of the DONE or ERR line forwarded to the
\* requester of nonce n is the function token of the RUN that made the run
\* n pending; a DONE or ERR that names another function is not forwarded.
C30_FunctionFidelity ==
  [][\A c \in Conns : ForwardsRunFunction(c) /\ KeepsForeignFunction(c)]_vars

\* A RUN that returns ACK stores, under its nonce on the station it named,
\* its own connection and that name, and touches no other pending run.
StoresRequester(c) ==
  Leaves(c, "runSave") =>
    LET S == MyArgs(c)[1]
        n == MyArgs(c)[3]
    IN  /\ ReturnsAck(c)
        /\ stations'[S].runs[n] = [client |-> c, name |-> S]
        /\ \A T \in DOMAIN stations : \A k \in DOMAIN stations[T].runs :
             T # S \/ k # n => stations'[T].runs[k] = stations[T].runs[k]

\* A pending run stays as it was stored for as long as it is pending.
PendingStays ==
  \A S \in DOMAIN stations \cap DOMAIN stations' :
    \A n \in DOMAIN stations[S].runs \cap DOMAIN stations'[S].runs :
      stations'[S].runs[n] = stations[S].runs[n]

\* A Write call that starts a DONE or ERR line on another connection is made
\* by a handler that holds the pending run of the line's nonce on its
\* station: the connection is the requester stored in the run, the station
\* name in the line is the stored name, and the handler goes on to remove
\* that run.
RoutesToRequester(c) ==
  \A to \in Conns :
    /\ out'[to] # out[to]
    /\ LastWrite(to).by = c
    /\ Len(LastWrite(to).text) = 4
    /\ LastWrite(to).text[1] \in {"DONE", "ERR"}
    => LET S == frame[c].station
           n == LastWrite(to).text[4]
       IN  /\ pc[c] \in {"doneWrite", "errWrite"}
           /\ n = MyNonce(c)
           /\ n \in DOMAIN stations[S].runs
           /\ stations[S].runsM = c
           /\ to = stations[S].runs[n].client
           /\ LastWrite(to).text[2] = stations[S].runs[n].name

\* C31: a DONE or ERR line that carries the station name S and the nonce n
\* is written only to the connection whose accepted RUN S n made the pending
\* run that the completion consumes, and S is the name that RUN addressed;
\* no other connection receives the completion.
C31_RoutingCorrectness ==
  [][/\ PendingStays
     /\ \A S \in DOMAIN stations' : \A n \in DOMAIN stations'[S].runs :
          stations'[S].runs[n].name = S
     /\ \A c \in Conns : StoresRequester(c) /\ RoutesToRequester(c) /\ Consumes(c)]_vars

\* C31 witness: c3's RUN a f n1 is pending on station a, whose connection
\* has written the start of its completion to c3 and to nobody else.
C31_Witness ==
  /\ pc["c1"] = "doneNewline"
  /\ frame["c1"].station = "a"
  /\ stations["a"].runs["n1"] = [client |-> "c3", name |-> "a"]
  /\ out["c3"] = << [by |-> "c1", text |-> <<"DONE", "a", "g", "n1">>, nl |-> FALSE] >>
  /\ out["c2"] = << >>

\* C32: a connection whose dispatcher is still reading lines and whose name
\* is not empty has, under that name, a station of the registry whose
\* connection it is: the lookup of the caller's station in METRIC, DONE and
\* ERR never fails.
C32_TagRegistryConsistent ==
  \A c \in Conns :
    Open(c) /\ name[c] # "" =>
      /\ name[c] \in DOMAIN stations
      /\ stations[name[c]].c = c

\* C32 witness: c1 registered as a and then as b, c2 has no name, and c1's
\* DONE has found the station of its name.
C32_Witness ==
  /\ name["c1"] = "b"
  /\ name["c2"] = ""
  /\ DOMAIN stations = {"a", "b"}
  /\ pc["c1"] = "doneLock"
  /\ frame["c1"].station = "b"
  /\ pc["c2"] = "scan"
  /\ nlines = 4

\* A dispatcher that is about to ask for the registry lock, at the start of
\* a handler or after its loop, and one whose handler has returned, holds no
\* lock at all.
HoldsNothing(c) ==
  pc[c] \in {"scan", "resp", "closing", "closed"} =>
    /\ c \notin stationsM
    /\ StationLocks(c) = {}

\* No dispatcher holds a metric lock and a pending-run lock.
OneStationLock(c) ==
  ~(\E S, T \in DOMAIN stations : stations[S].m = c /\ stations[T].runsM = c)

\* C33: no dispatcher asks for the registry lock while it holds a lock of a
\* station, and none holds a metric lock and a pending-run lock together;
\* every handler that has been called returns, with all its locks released,
\* and every dispatcher whose loop has ended finishes its unregistration.
C33_DeadlockFree ==
  /\ [](\A c \in Conns : HoldsNothing(c) /\ OneStationLock(c))
  /\ \A c \in Conns :
       /\ (pc[c] \in HandlerPlaces) ~> (pc[c] = "resp")
       /\ (pc[c] = "closing") ~> (pc[c] = "closed")

\* C33 witness: c3's RUN waits for the pending-run lock of station a, which
\* c1's DONE holds; both hold the registry lock.
C33_Witness ==
  /\ pc["c3"] = "runLock"
  /\ pc["c1"] \in DonePlaces
  /\ stationsM = {"c1", "c3"}
  /\ frame["c3"].station = "a"
  /\ stations["a"].runsM = "c1"

\* C34: a RUN that goes on to record a pending run and return ACK writes its
\* line to a station whose dispatcher is still reading lines: no RUN is
\* acknowledged for a station whose connection has ended and which is still
\* in the registry.
C34_RunReachesLiveStation ==
  [][\A c \in Conns :
       Leaves(c, "runWrite") => Open(stations[frame[c].station].c)]_vars

\* The connection of station S has been sent the whole line of a RUN with
\* the nonce n that has not been completed: the RUN has written its newline
\* and is about to record the run, or the run is pending.
Received(S, n) ==
  \/ n \in DOMAIN stations[S].runs
  \/ \E d \in Conns :
       pc[d] = "runSave" /\ frame[d].station = S /\ MyNonce(d) = n

\* A well-formed DONE or ERR that is read when its connection has been sent
\* a RUN with its nonce is not refused at once, and looks for the nonce on
\* the station the RUN was sent to.
LooksWhereSent(c) ==
  (Invokes(c, "DONE") \/ Invokes(c, "ERR")) /\ Completing(c) =>
    \A S \in Owned(c) :
      Received(S, frame'[c].cmdParts[3]) =>
        ~ReturnsErr(c) /\ frame'[c].station = S

\* While the handler waits for the pending-run lock of that station the RUN
\* stays received, and when it gets the lock it finds the nonce.
FindsReceived(c) ==
  pc[c] \in {"doneLock", "errLock"} /\ Received(frame[c].station, MyNonce(c)) =>
    /\ ~ReturnsErr(c)
    /\ pc'[c] = pc[c] => Received(frame[c].station, MyNonce(c))'

\* C35: a station connection that has been sent RUN f n and answers with its
\* first DONE f n or ERR f n gets ACK, never an error for an unknown nonce,
\* however the requester's RUN and the station's completion interleave.
C35_NoCompletionRace ==
  [][\A c \in Conns : LooksWhereSent(c) /\ FindsReceived(c) /\ Consumes(c)]_vars

====
